---- MODULE Spec2Model ----
(***************************************************************************)
(* Model of the blog domain of library_blog_hexagonal_django: the          *)
(* PostAggregate state machine (src/domain/blog/aggregates.py) with its    *)
(* Post and Comment entities, the Title / Slug / Content value objects and *)
(* the pending-events buffer of AggregateRoot.                             *)
(*                                                                         *)
(* Strings are sequences of one-character strings, so that strip(),        *)
(* lower(), title() and the slug derivation are computed the way the       *)
(* Python code computes them.                                              *)
(*                                                                         *)
(* A caller calls the operations of one aggregate one after the other.     *)
(* The variable call holds the outcome of the call just made (the value    *)
(* returned or the exception raised) until the caller goes on (Resume).    *)
(***************************************************************************)
EXTENDS Integers, Sequences, FiniteSets, TLC

\* ------------------------------------------------------------------------
\* Bounds of the model
\* ------------------------------------------------------------------------
\* total number of events one aggregate may record (PostCreated included)
MaxEvents == 3
\* largest reading of the clock
MaxTime == 1
\* number of comments one aggregate may hold
MaxComments == 1
MaxCrashes == 1

\* ------------------------------------------------------------------------
\* Program constants
\* ------------------------------------------------------------------------
MIN_LENGTH_TO_PUBLISH == 100
MAX_LENGTH == 1000
MaxTitleLen == 200

\* ------------------------------------------------------------------------
\* Strings (str methods used by the domain)
\* ------------------------------------------------------------------------
Whitespace == {" ", "\t"}

Rep(c, n) == [i \in 1..n |-> c]

FirstNonSpace(s) ==
    IF \E i \in 1..Len(s) : s[i] \notin Whitespace
    THEN CHOOSE i \in 1..Len(s) :
            /\ s[i] \notin Whitespace
            /\ \A j \in 1..(i-1) : s[j] \in Whitespace
    ELSE 0

LastNonSpace(s) ==
    IF \E i \in 1..Len(s) : s[i] \notin Whitespace
    THEN CHOOSE i \in 1..Len(s) :
            /\ s[i] \notin Whitespace
            /\ \A j \in (i+1)..Len(s) : s[j] \in Whitespace
    ELSE 0

\* str.strip(): drops the leading and trailing whitespace
Strip(s) ==
    IF FirstNonSpace(s) = 0 THEN <<>>
    ELSE SubSeq(s, FirstNonSpace(s), LastNonSpace(s))

LowerChar(c) ==
    CASE c = "A" -> "a"
      [] c = "B" -> "b"
      [] c = "H" -> "h"
      [] c = "I" -> "i"
      [] c = "Á" -> "á"
      [] OTHER -> c

UpperChar(c) ==
    CASE c = "a" -> "A"
      [] c = "b" -> "B"
      [] c = "h" -> "H"
      [] c = "i" -> "I"
      [] c = "á" -> "Á"
      [] OTHER -> c

IsCased(c) == c \in {"a", "b", "h", "i", "á", "A", "B", "H", "I", "Á"}

\* str.lower()
Lower(s) == [i \in 1..Len(s) |-> LowerChar(s[i])]

\* str.title(): a cased character is upper-cased when it starts a run of
\* cased characters and lower-cased inside the run
TitleCase(s) ==
    [i \in 1..Len(s) |->
        IF ~IsCased(s[i]) THEN s[i]
        ELSE IF i > 1 /\ IsCased(s[i-1]) THEN LowerChar(s[i])
        ELSE UpperChar(s[i])]

\* re.sub of one character class by a replacement of length <= 1
RECURSIVE SubChars(_, _, _)
SubChars(s, class, repl) ==
    IF s = <<>> THEN <<>>
    ELSE (IF Head(s) \in class THEN repl ELSE <<Head(s)>>)
         \o SubChars(Tail(s), class, repl)

\* re.sub(r"[\s]+", "-", s): every run of whitespace becomes one hyphen
RECURSIVE SubSpaceRuns(_)
SubSpaceRuns(s) ==
    IF s = <<>> THEN <<>>
    ELSE IF Head(s) \in Whitespace
         THEN IF Len(s) > 1 /\ s[2] \in Whitespace
              THEN SubSpaceRuns(Tail(s))
              ELSE <<"-">> \o SubSpaceRuns(Tail(s))
         ELSE <<Head(s)>> \o SubSpaceRuns(Tail(s))

\* the characters [a-z0-9] of the model's alphabet
AlNum == {"a", "b", "h", "i", "1"}

\* ------------------------------------------------------------------------
\* Value objects (src/domain/blog/value_objects.py).  A constructor yields
\* [ok |-> TRUE, value |-> v] or [ok |-> FALSE, raised |-> exception class]
\* ------------------------------------------------------------------------
\* Slug.__post_init__
SlugMatches(s) ==
    /\ Len(s) >= 2
    /\ s[1] \in AlNum
    /\ s[Len(s)] \in AlNum
    /\ \A i \in 2..(Len(s)-1) : s[i] \in AlNum \cup {"-"}

Slug(value) ==
    LET cleaned == Lower(Strip(value)) IN
    IF cleaned = <<>> THEN [ok |-> FALSE, raised |-> "DomainError"]
    ELSE IF ~SlugMatches(cleaned) /\ Len(cleaned) > 1
         THEN [ok |-> FALSE, raised |-> "DomainError"]
    ELSE [ok |-> TRUE, value |-> cleaned]

\* Title.__post_init__
Title(value) ==
    LET cleaned == IF value # <<>> THEN TitleCase(Strip(value)) ELSE <<>> IN
    IF cleaned = <<>> THEN [ok |-> FALSE, raised |-> "DomainError"]
    ELSE IF Len(cleaned) > MaxTitleLen
         THEN [ok |-> FALSE, raised |-> "DomainError"]
    ELSE [ok |-> TRUE, value |-> cleaned]

\* Title.to_slug, applied to the value of a valid Title
to_slug(value) ==
    LET raw1 == Lower(value)
        raw2 == SubChars(raw1, {"á"}, <<"a">>)
        raw3 == SelectSeq(raw2, LAMBDA c : c \in AlNum \cup Whitespace \cup {"-"})
        raw4 == SubSpaceRuns(Strip(raw3))
    IN Slug(raw4)

\* Content.__post_init__
Content(value) ==
    IF value = <<>> \/ Strip(value) = <<>>
    THEN [ok |-> FALSE, raised |-> "DomainError"]
    ELSE [ok |-> TRUE, value |-> value]

\* is_publishable measuring the untrimmed value
is_publishable_untrimmed(value) == Len(value) >= MIN_LENGTH_TO_PUBLISH

\* Content.is_publishable
is_publishable(value) == Len(Strip(value)) >= MIN_LENGTH_TO_PUBLISH

\* ------------------------------------------------------------------------
\* Inputs the operations are called with
\* ------------------------------------------------------------------------
\* identifiers of users (authors, commenters, requesters)
UUIDs == {"u1", "u2"}
\* the users that create a post
Authors == {"u1"}
PostIds == {"p1"}
\* category identifiers; "None" is Python's None
CategoryIds == {"None", "k1"}
\* identifiers uuid4() may hand to a new comment
CommentIds == 1..(MaxComments + 1)

\* raw strings the Title of a new post is built from: "hi" -> "Hi" (slug "hi")
RawTitles == { <<"h", "i">> }
Titles == { Title(r).value : r \in { q \in RawTitles : Title(q).ok } }
\* raw strings the Title given to update is built from:
\* " á b" -> "Á B" (slug "a-b"), "!" -> "!" (no slug can be derived)
RawNewTitles == { <<" ", "á", " ", "b">>, <<"!">> }
NewTitles == { Title(r).value : r \in { q \in RawNewTitles : Title(q).ok } }

\* contents: 99 characters inside whitespace (101 in all), 100 characters
RawContents ==
    { <<" ">> \o Rep("a", MIN_LENGTH_TO_PUBLISH - 1) \o <<"\t">>,
      Rep("a", MIN_LENGTH_TO_PUBLISH) }
Contents == { Content(r).value : r \in { q \in RawContents : Content(q).ok } }

\* comment bodies: blank and " hi "
Bodies == { <<" ">>, <<" ", "h", "i", " ">> }

\* tag lists handed to add_tags
TagLists == { << <<"A">>, <<" ">>, <<" ", "a", " ">> >> }

\* tag lists for the behaviours that only call add_tags: ["A"], ["a"],
\* [" b ", "A"], ["", " "], ["I", "B", "i"]
TagInputs ==
    { << <<"A">> >>,
      << <<"a">> >>,
      << <<" ", "b", " ">>, <<"A">> >>,
      << <<>>, <<" ">> >>,
      << <<"I">>, <<"B">>, <<"i">> >> }

\* ------------------------------------------------------------------------
\* State
\* ------------------------------------------------------------------------
VARIABLES
    id,             \* Entity._id of the aggregate and of its Post
    title,          \* Post._title (the value of the Title)
    slug,           \* Post._slug (the value of the Slug)
    content,        \* Post._content (the value of the Content)
    author_id,      \* Post._author_id
    category_id,    \* Post._category_id
    status,         \* Post._status: "draft", "published" or "archived"
    tags,           \* Post._tags
    created_at,     \* Post._created_at
    updated_at,     \* Post._updated_at
    published_at,   \* Post._published_at: <<>> is None, <<t>> a time
    comments,       \* PostAggregate._comments
    domain_events,  \* AggregateRoot._domain_events
    now,            \* the last reading of the clock (datetime.now)
    call,           \* the last call: operation, exception raised, value returned
    emitted,        \* history: every event recorded so far, in order
    pulled,         \* history: the results of all pull_events() calls, concatenated
    queue,          \* the dispatch_domain_event message in the broker: <<>> or <<message>>
    clock,          \* the time of the broker and the worker
    attempts,       \* history: one record per execution of dispatch_domain_event
    result,         \* the state of the task and its return value or exception
    repo,           \* the post repository: <<>> or <<the saved post>>
    bus,            \* history: the events handed to EventBus.publish_many
    step,           \* the position of the command handler that is running
    parked,         \* <<>> or <<the memory of a second handler that waits>>
    cache,          \* the keys the cache service holds
    effects,        \* history: the calls the handlers made on their collaborators
    handlers        \* the handler instances at work, one per worker

aggVars == <<id, title, slug, content, author_id, category_id, status, tags,
             created_at, updated_at, published_at, comments, domain_events>>
workerVars == <<queue, clock, attempts, result>>
appVars == <<repo, bus, step, parked>>
reactionVars == <<cache, effects, handlers>>
vars == <<id, title, slug, content, author_id, category_id, status, tags,
          created_at, updated_at, published_at, comments, domain_events,
          now, call, emitted, pulled, queue, clock, attempts, result,
          repo, bus, step, parked, cache, effects, handlers>>

\* the task before its first execution
Pending == [state |-> "PENDING", value |-> <<>>]
\* no envelope was handed to the worker
NoDispatch ==
    /\ queue = <<>>
    /\ clock = 0
    /\ attempts = <<>>
    /\ result = Pending
\* no handler is at work
NoReaction ==
    /\ cache = {}
    /\ effects = <<>>
    /\ handlers = <<>>

NoException == [kind |-> "None"]
\* the value of call between two calls
Idle == [op |-> "idle", exc |-> NoException, ret |-> <<>>]

\* ------------------------------------------------------------------------
\* AggregateRoot (src/domain/shared/base.py)
\* ------------------------------------------------------------------------
\* _record_event that replaces the buffer by the new event
_record_event_replacing(events, event) == <<event>>

\* AggregateRoot._record_event
_record_event(events, event) == Append(events, event)

\* pull_events that returns the buffer without emptying it
pull_events_keeping(events) == <<events, events>>

\* AggregateRoot.pull_events: <<returned list, new buffer>>
pull_events(events) == <<events, <<>> >>

\* ------------------------------------------------------------------------
\* Events (src/domain/blog/events.py); event_id and occurred_at of
\* DomainEvent are not part of this model of the aggregate
\* ------------------------------------------------------------------------
\* a PostCreated that carries the author in place of the post
PostCreated_of_author(post_id, author, t) ==
    [type |-> "PostCreated", post_id |-> author, author_id |-> author, title |-> t]

PostCreated(post_id, author, t) ==
    [type |-> "PostCreated", post_id |-> post_id, author_id |-> author, title |-> t]
PostPublished(post_id, s) ==
    [type |-> "PostPublished", post_id |-> post_id, slug |-> s]
PostArchived(post_id) ==
    [type |-> "PostArchived", post_id |-> post_id]
CommentAdded(post_id, comment_id, author) ==
    [type |-> "CommentAdded", post_id |-> post_id, comment_id |-> comment_id,
     author_id |-> author]
PostUpdated(post_id, t) ==
    [type |-> "PostUpdated", post_id |-> post_id, new_title |-> t]

\* ------------------------------------------------------------------------
\* Post (src/domain/blog/entities.py)
\* ------------------------------------------------------------------------
\* is_published that never sees a published post
is_published_never == FALSE

\* Post.is_published
is_published == status = "published"

\* Post.is_draft
is_draft == status = "draft"

\* is_archived that takes a published post for an archived one and an
\* archived one for a live one
is_archived_confused == status = "published"

\* Post.is_archived
is_archived == status = "archived"

\* _set_status that touches the timestamp and keeps the status
_set_status_kept(new_status, t) ==
    /\ status' = status
    /\ updated_at' = t

\* Post._set_status
_set_status(new_status, t) ==
    /\ status' = new_status
    /\ updated_at' = t

\* _set_published_at that leaves the publication time as it was
_set_published_at_skipped(dt) == published_at' = published_at

\* Post._set_published_at
_set_published_at(dt) == published_at' = <<dt>>

\* _update_content that keeps the slug of the old title
_update_content_stale_slug(new_title, new_content, t) ==
    /\ title' = new_title
    /\ slug' = slug
    /\ content' = new_content
    /\ updated_at' = t

\* Post._update_content, when title.to_slug() returns
_update_content(new_title, new_content, t) ==
    /\ title' = new_title
    /\ slug' = to_slug(new_title).value
    /\ content' = new_content
    /\ updated_at' = t

\* PostAggregate.__init__ / Post.__init__ : the state after construction.
\* Time is counted from the constructor's first reading of the clock.
Init ==
    /\ id \in PostIds
    /\ title \in { t \in Titles : to_slug(t).ok }
    /\ slug = to_slug(title).value
    /\ content \in Contents
    /\ author_id \in Authors
    /\ category_id \in CategoryIds
    /\ status = "draft"
    /\ tags = <<>>
    /\ created_at = 0
    /\ updated_at \in created_at..MaxTime
    /\ published_at = <<>>
    /\ comments = <<>>
    /\ domain_events = _record_event(<<>>, PostCreated(id, author_id, title))
    /\ now = updated_at
    /\ call = [op |-> "__init__", exc |-> NoException, ret |-> <<>>]
    /\ emitted = <<PostCreated(id, author_id, title)>>
    /\ pulled = <<>>
    /\ NoDispatch
    /\ NoReaction
    /\ repo = <<>>
    /\ parked = <<>>
    /\ bus = <<>>
    /\ step = "constructed"

\* the caller is between two calls
Ready == call = Idle

\* an operation that raises before it changed anything
Raises(op, exc) ==
    /\ call' = [op |-> op, exc |-> exc, ret |-> <<>>]
    /\ UNCHANGED <<aggVars, now, emitted, pulled, workerVars, appVars, reactionVars>>

Returns(op, ret) ==
    /\ call' = [op |-> op, exc |-> NoException, ret |-> ret]
    /\ UNCHANGED <<workerVars, appVars, reactionVars>>

\* room for one more recorded event
CanEmit == Len(emitted) < MaxEvents

\* PostAggregate.publish
publish ==
    /\ Ready
    /\ IF is_published THEN
           Raises("publish", [kind |-> "PostAlreadyPublishedError"])
       ELSE IF is_archived THEN
           Raises("publish", [kind |-> "PostArchivedError", operation |-> "publicar"])
       ELSE IF ~is_publishable(content) THEN
           Raises("publish", [kind |-> "InvalidPostContentError",
                   current_length |-> Len(content),
                   min_length |-> MIN_LENGTH_TO_PUBLISH])
       ELSE
           /\ CanEmit
           /\ \E t1 \in now..MaxTime : \E t2 \in t1..MaxTime :
               /\ _set_status("published", t1)
               /\ _set_published_at(t2)
               /\ now' = t2
           /\ domain_events' = _record_event(domain_events, PostPublished(id, slug))
           /\ emitted' = Append(emitted, PostPublished(id, slug))
           /\ Returns("publish", <<>>)
           /\ UNCHANGED <<id, title, slug, content, author_id, category_id, tags,
                          created_at, comments, pulled>>

\* archive that looks at the status before it looks at the requester
archive_status_first(requesting_author_id) ==
    /\ Ready
    /\ IF is_archived THEN
           Raises("archive", [kind |-> "PostArchivedError", operation |-> "archivar nuevamente"])
       ELSE IF requesting_author_id # author_id THEN
           Raises("archive", [kind |-> "UnauthorizedPostActionError", action |-> "archivar"])
       ELSE
           /\ CanEmit
           /\ \E t \in now..MaxTime :
               /\ _set_status("archived", t)
               /\ now' = t
           /\ domain_events' = _record_event(domain_events, PostArchived(id))
           /\ emitted' = Append(emitted, PostArchived(id))
           /\ Returns("archive", <<>>)
           /\ UNCHANGED <<id, title, slug, content, author_id, category_id, tags,
                          created_at, published_at, comments, pulled>>

\* PostAggregate.archive
archive(requesting_author_id) ==
    /\ Ready
    /\ IF requesting_author_id # author_id THEN
           Raises("archive", [kind |-> "UnauthorizedPostActionError", action |-> "archivar"])
       ELSE IF is_archived THEN
           Raises("archive", [kind |-> "PostArchivedError", operation |-> "archivar nuevamente"])
       ELSE
           /\ CanEmit
           /\ \E t \in now..MaxTime :
               /\ _set_status("archived", t)
               /\ now' = t
           /\ domain_events' = _record_event(domain_events, PostArchived(id))
           /\ emitted' = Append(emitted, PostArchived(id))
           /\ Returns("archive", <<>>)
           /\ UNCHANGED <<id, title, slug, content, author_id, category_id, tags,
                          created_at, published_at, comments, pulled>>

\* PostAggregate.update, with Post._update_content
update(new_title, new_content, requesting_author_id) ==
    /\ Ready
    /\ IF requesting_author_id # author_id THEN
           Raises("update", [kind |-> "UnauthorizedPostActionError", action |-> "editar"])
       ELSE IF is_archived THEN
           Raises("update", [kind |-> "PostArchivedError", operation |-> "editar"])
       ELSE IF ~to_slug(new_title).ok THEN
           \* Post._update_content has assigned _title when to_slug raises
           /\ title' = new_title
           /\ call' = [op |-> "update",
                       exc |-> [kind |-> to_slug(new_title).raised], ret |-> <<>>]
           /\ UNCHANGED <<id, slug, content, author_id, category_id, status, tags,
                          created_at, updated_at, published_at, comments,
                          domain_events, now, emitted, pulled, workerVars,
                          appVars, reactionVars>>
       ELSE
           /\ CanEmit
           /\ \E t \in now..MaxTime :
               /\ _update_content(new_title, new_content, t)
               /\ now' = t
           /\ domain_events' = _record_event(domain_events, PostUpdated(id, new_title))
           /\ emitted' = Append(emitted, PostUpdated(id, new_title))
           /\ Returns("update", <<>>)
           /\ UNCHANGED <<id, author_id, category_id, status, tags, created_at,
                          published_at, comments, pulled>>

\* ------------------------------------------------------------------------
\* Comment (src/domain/blog/entities.py); Comment._created_at is not part
\* of the model
\* ------------------------------------------------------------------------
Tombstone ==
    <<"[", "c", "o", "m", "e", "n", "t", "a", "r", "i", "o", " ",
      "e", "l", "i", "m", "i", "n", "a", "d", "o", "]">>

\* Comment._validate_body: the exception it raises, or NoException
_validate_body(body) ==
    IF body = <<>> \/ Strip(body) = <<>> THEN [kind |-> "ValidationError"]
    ELSE IF Len(body) > MAX_LENGTH THEN [kind |-> "ValidationError"]
    ELSE NoException

\* Comment.__init__ after a successful validation
Comment(body, author, comment_id) ==
    [id |-> comment_id, body |-> Strip(body), author_id |-> author,
     is_deleted |-> FALSE]

\* uuid4() for a new comment: an identifier no comment of the aggregate has
NewCommentId ==
    CHOOSE c \in CommentIds :
        /\ \A i \in 1..Len(comments) : comments[i].id # c
        /\ \A d \in CommentIds :
              (\A i \in 1..Len(comments) : comments[i].id # d) => c <= d

\* add_comment that records the event and returns the comment without
\* adding it to the collection
add_comment_not_appended(body, commenter_id) ==
    /\ Ready
    /\ IF is_archived THEN
           Raises("add_comment", [kind |-> "CommentNotAllowedError",
                   reason |-> "el post está archivado"])
       ELSE IF _validate_body(body) # NoException THEN
           Raises("add_comment", _validate_body(body))
       ELSE
           /\ CanEmit
           /\ Len(comments) < MaxComments
           /\ LET comment == Comment(body, commenter_id, NewCommentId) IN
               /\ comments' = comments
               /\ domain_events' = _record_event(domain_events,
                                       CommentAdded(id, comment.id, commenter_id))
               /\ emitted' = Append(emitted, CommentAdded(id, comment.id, commenter_id))
               /\ Returns("add_comment", <<comment>>)
           /\ UNCHANGED <<id, title, slug, content, author_id, category_id, status,
                          tags, created_at, updated_at, published_at, now, pulled>>

\* PostAggregate.add_comment
add_comment(body, commenter_id) ==
    /\ Ready
    /\ IF is_archived THEN
           Raises("add_comment", [kind |-> "CommentNotAllowedError",
                   reason |-> "el post está archivado"])
       ELSE IF _validate_body(body) # NoException THEN
           Raises("add_comment", _validate_body(body))
       ELSE
           /\ CanEmit
           /\ Len(comments) < MaxComments
           /\ LET comment == Comment(body, commenter_id, NewCommentId) IN
               /\ comments' = Append(comments, comment)
               /\ domain_events' = _record_event(domain_events,
                                       CommentAdded(id, comment.id, commenter_id))
               /\ emitted' = Append(emitted, CommentAdded(id, comment.id, commenter_id))
               /\ Returns("add_comment", <<comment>>)
           /\ UNCHANGED <<id, title, slug, content, author_id, category_id, status,
                          tags, created_at, updated_at, published_at, now, pulled>>

\* next(c for c in self._comments if c.id == comment_id, None): the index of
\* the first comment with that id, 0 for None
FindComment(comment_id) ==
    IF \E i \in 1..Len(comments) : comments[i].id = comment_id
    THEN CHOOSE i \in 1..Len(comments) :
            /\ comments[i].id = comment_id
            /\ \A j \in 1..(i-1) : comments[j].id # comment_id
    ELSE 0

\* PostAggregate.comments: the comments that are not deleted
visible_comments(cs) == SelectSeq(cs, LAMBDA c : ~c.is_deleted)
comments_view == visible_comments(comments)

\* PostAggregate.all_comments
all_comments == comments

\* soft_delete that sets the flag and keeps the body
soft_delete_keeping_body(comment) == [comment EXCEPT !.is_deleted = TRUE]

\* Comment.soft_delete, once the requester is known to be the author
soft_delete(comment) ==
    [comment EXCEPT !.is_deleted = TRUE, !.body = Tombstone]

\* PostAggregate.remove_comment, with Comment.soft_delete
remove_comment(comment_id, requesting_user_id) ==
    /\ Ready
    /\ LET i == FindComment(comment_id) IN
       IF i = 0 THEN
           Raises("remove_comment", [kind |-> "ValidationError"])
       ELSE IF requesting_user_id # comments[i].author_id THEN
           Raises("remove_comment", [kind |-> "UnauthorizedPostActionError",
                   action |-> "eliminar comentario"])
       ELSE
           /\ comments' = [comments EXCEPT ![i] = soft_delete(comments[i])]
           /\ Returns("remove_comment", <<>>)
           /\ UNCHANGED <<id, title, slug, content, author_id, category_id, status,
                          tags, created_at, updated_at, published_at, domain_events,
                          now, emitted, pulled>>

\* _add_tag that trims the tag and keeps its case
_add_tag_case_kept(ts, tag) ==
    LET normalized == Strip(tag) IN
    IF normalized # <<>> /\ \A i \in 1..Len(ts) : ts[i] # normalized
    THEN Append(ts, normalized)
    ELSE ts

\* Post._add_tag: the tag list after adding one tag
_add_tag(ts, tag) ==
    LET normalized == Strip(Lower(tag)) IN
    IF normalized # <<>> /\ \A i \in 1..Len(ts) : ts[i] # normalized
    THEN Append(ts, normalized)
    ELSE ts

RECURSIVE AddAll(_, _)
AddAll(ts, new) ==
    IF new = <<>> THEN ts ELSE AddAll(_add_tag(ts, Head(new)), Tail(new))

\* PostAggregate.add_tags
add_tags(new_tags) ==
    /\ Ready
    /\ tags' = AddAll(tags, new_tags)
    /\ Returns("add_tags", <<>>)
    /\ UNCHANGED <<id, title, slug, content, author_id, category_id, status,
                   created_at, updated_at, published_at, comments, domain_events,
                   now, emitted, pulled>>

\* PostAggregate.set_category
set_category(new_category_id) ==
    /\ Ready
    /\ category_id' = new_category_id
    /\ Returns("set_category", <<>>)
    /\ UNCHANGED <<id, title, slug, content, author_id, status, tags,
                   created_at, updated_at, published_at, comments, domain_events,
                   now, emitted, pulled>>

\* a call of AggregateRoot.pull_events
PullEvents ==
    /\ Ready
    /\ domain_events' = pull_events(domain_events)[2]
    /\ pulled' = pulled \o pull_events(domain_events)[1]
    /\ Returns("pull_events", pull_events(domain_events)[1])
    /\ UNCHANGED <<id, title, slug, content, author_id, category_id, status,
                   tags, created_at, updated_at, published_at, comments, now,
                   emitted>>

\* the caller has taken the outcome of the last call (the value returned or
\* the exception raised) and is ready for its next call
Resume ==
    /\ call # Idle
    /\ call' = Idle
    /\ UNCHANGED <<aggVars, now, emitted, pulled, workerVars, appVars, reactionVars>>

Next ==
    \/ publish
    \/ \E r \in UUIDs : archive(r)
    \/ \E t \in NewTitles, c \in Contents, r \in UUIDs : update(t, c, r)
    \/ \E b \in Bodies, u \in UUIDs : add_comment(b, u)
    \/ \E c \in CommentIds, u \in UUIDs : remove_comment(c, u)
    \/ \E ts \in TagLists : add_tags(ts)
    \/ \E k \in CategoryIds : set_category(k)
    \/ PullEvents
    \/ Resume

Spec == Init /\ [][Next]_vars

\* ------------------------------------------------------------------------
\* PostAggregate.reconstitute: an aggregate loaded from persisted state
\* ------------------------------------------------------------------------
\* what the persistence collaborator hands to reconstitute
Statuses == {"draft", "published", "archived"}
PublishedAts == { <<>>, <<0>> }
StoredTags == { <<>>, << <<"a">> >> }
StoredComments ==
    { <<>>,
      << [id |-> 1, body |-> Tombstone, author_id |-> "u2", is_deleted |-> TRUE] >> }

\* reconstitute that records PostCreated as the constructor does
reconstitute_recording(post_id, t, c, author, st, created, published, tgs, category, cmts) ==
    [id |-> post_id, title |-> t, slug |-> to_slug(t).value, content |-> c,
     author_id |-> author, category_id |-> category, status |-> st,
     tags |-> tgs, created_at |-> created, updated_at |-> created,
     published_at |-> published, comments |-> cmts,
     domain_events |-> _record_event(<<>>, PostCreated(post_id, author, t))]

\* PostAggregate.reconstitute: the fields of the aggregate it returns
reconstitute(post_id, t, c, author, st, created, published, tgs, category, cmts) ==
    [id |-> post_id, title |-> t, slug |-> to_slug(t).value, content |-> c,
     author_id |-> author, category_id |-> category, status |-> st,
     tags |-> tgs, created_at |-> created, updated_at |-> created,
     published_at |-> published, comments |-> cmts,
     domain_events |-> <<>>]

\* the state after a call of reconstitute; call.args are its arguments
InitLoaded ==
    \E post_id \in PostIds, t \in { q \in Titles : to_slug(q).ok },
       c \in Contents, author \in Authors, st \in Statuses,
       published \in PublishedAts, tgs \in StoredTags,
       category \in CategoryIds, cmts \in StoredComments :
        LET agg == reconstitute(post_id, t, c, author, st, 0, published, tgs,
                                category, cmts) IN
        /\ id = agg.id
        /\ title = agg.title
        /\ slug = agg.slug
        /\ content = agg.content
        /\ author_id = agg.author_id
        /\ category_id = agg.category_id
        /\ status = agg.status
        /\ tags = agg.tags
        /\ created_at = agg.created_at
        /\ updated_at = agg.updated_at
        /\ published_at = agg.published_at
        /\ comments = agg.comments
        /\ domain_events = agg.domain_events
        /\ now = 0
        /\ call = [op |-> "reconstitute", exc |-> NoException, ret |-> <<>>,
                   args |-> [post_id |-> post_id, title |-> t, content |-> c,
                             author_id |-> author, status |-> st,
                             created_at |-> 0, published_at |-> published,
                             tags |-> tgs, category_id |-> category,
                             comments |-> cmts]]
        /\ emitted = agg.domain_events
        /\ pulled = <<>>
        /\ NoDispatch
        /\ NoReaction
        /\ repo = <<>>
        /\ parked = <<>>
        /\ bus = <<>>
        /\ step = "loaded"

\* what the command handlers do with a loaded aggregate
NextLoaded ==
    \/ publish
    \/ \E r \in UUIDs : archive(r)
    \/ \E b \in Bodies, u \in UUIDs : add_comment(b, u)
    \/ PullEvents
    \/ Resume

SpecLoaded == InitLoaded /\ [][NextLoaded]_vars

\* a constructor-created aggregate on which only add_tags is called
NextTags ==
    \/ \E ts \in TagInputs : add_tags(ts)
    \/ Resume

SpecTags == Init /\ [][NextTags]_vars

\* comment bodies around Comment.MAX_LENGTH: MAX_LENGTH characters, the same
\* between two blanks, and one character more
LongBodies ==
    { Rep("a", MAX_LENGTH),
      <<" ">> \o Rep("a", MAX_LENGTH) \o <<" ">>,
      Rep("a", MAX_LENGTH + 1) }

\* a constructor-created aggregate that is commented on
NextComments ==
    \/ \E b \in Bodies \cup LongBodies, u \in UUIDs : add_comment(b, u)
    \/ \E c \in CommentIds, u \in UUIDs : remove_comment(c, u)
    \/ Resume

SpecComments == Init /\ [][NextComments]_vars

\* ------------------------------------------------------------------------
\* Command handlers (src/src/application/blog/commands)
\* ------------------------------------------------------------------------
\* the persisted state of the aggregate in memory: PostRepository.save is an
\* upsert of the aggregate, its unpublished events are not part of it
Persisted ==
    [id |-> id, title |-> title, slug |-> slug, content |-> content,
     author_id |-> author_id, category_id |-> category_id, status |-> status,
     tags |-> tags, created_at |-> created_at, updated_at |-> updated_at,
     published_at |-> published_at, comments |-> comments]

\* the operations the handlers of the loaded aggregate call
HandlerOperations == {"publish", "archive", "add_comment"}

\* the operation of the handler returned: self._repo.save(post) is next
BeforeSave ==
    \/ step = "constructed" /\ call.op = "add_tags" /\ call.exc = NoException
    \/ step = "loaded" /\ call.op \in HandlerOperations /\ call.exc = NoException

\* the handler has nothing more to do on the aggregate
NoMoreCalls ==
    /\ call' = Idle
    /\ UNCHANGED <<id, title, slug, content, author_id, category_id, status,
                   tags, created_at, updated_at, published_at, comments, now,
                   emitted, workerVars, reactionVars>>

\* CreatePostHandler.handle: post.add_tags(command.tags) on the new aggregate
CreatePost_add_tags(command_tags) ==
    /\ step = "constructed"
    /\ add_tags(command_tags)

\* post = self._repo.get_by_id(command.post_id); if post is None: raise
\* PostNotFoundError. A loaded aggregate is reconstituted: it holds no event
get_by_id(post_id) ==
    /\ step = "idle"
    /\ Ready
    /\ IF repo = <<>> \/ repo[1].id # post_id THEN
           Raises("get_by_id", [kind |-> "PostNotFoundError"])
       ELSE
           /\ id' = repo[1].id
           /\ title' = repo[1].title
           /\ slug' = repo[1].slug
           /\ content' = repo[1].content
           /\ author_id' = repo[1].author_id
           /\ category_id' = repo[1].category_id
           /\ status' = repo[1].status
           /\ tags' = repo[1].tags
           /\ created_at' = repo[1].created_at
           /\ updated_at' = repo[1].updated_at
           /\ published_at' = repo[1].published_at
           /\ comments' = repo[1].comments
           /\ domain_events' = <<>>
           /\ step' = "loaded"
           /\ call' = Idle
           /\ UNCHANGED <<now, emitted, pulled, workerVars, repo, bus, parked,
                          reactionVars>>

\* PublishPostCommandHandler.handle(command): post.publish(); the command
\* carries requesting_author_id, and handle reads command.post_id only
PublishPost_publish(requesting_author_id) ==
    /\ step = "loaded"
    /\ publish

\* ArchivePostHandler.handle: post.archive(command.requesting_author_id)
ArchivePost_archive(requesting_author_id) ==
    /\ step = "loaded"
    /\ archive(requesting_author_id)

\* AddCommentHandler.handle: post.add_comment(command.body, command.author_id)
AddComment_add_comment(body, commenter_id) ==
    /\ step = "loaded"
    /\ add_comment(body, commenter_id)

\* the operation on the aggregate raised: the exception leaves handle, the
\* aggregate in memory is dropped
handle_raises ==
    /\ step = "loaded"
    /\ call.exc # NoException
    /\ step' = "idle"
    /\ UNCHANGED <<aggVars, now, call, emitted, pulled, workerVars, repo, bus, parked,
                   reactionVars>>

\* a handler that hands the events to the bus before it saves
publish_many_before_save ==
    /\ BeforeSave
    /\ bus' = bus \o pull_events(domain_events)[1]
    /\ domain_events' = pull_events(domain_events)[2]
    /\ pulled' = pulled \o pull_events(domain_events)[1]
    /\ step' = "idle"
    /\ NoMoreCalls
    /\ UNCHANGED <<repo, parked>>

\* self._repo.save(post): the upsert returns, or it raises and the exception
\* leaves handle
save ==
    /\ BeforeSave
    /\ \/ /\ repo' = <<Persisted>>
          /\ step' = "saved"
          /\ call' = [op |-> "save", exc |-> NoException, ret |-> <<>>]
       \/ /\ repo' = repo
          /\ step' = "idle"
          /\ call' = [op |-> "save", exc |-> [kind |-> "Exception", raised_by |-> "save"],
                      ret |-> <<>>]
    /\ UNCHANGED <<aggVars, now, emitted, pulled, workerVars, bus, parked,
                   reactionVars>>

\* self._event_bus.publish_many(post.pull_events()), the last call of handle:
\* pull_events is evaluated first, then the bus takes the events or raises
publish_many ==
    /\ step = "saved"
    /\ domain_events' = pull_events(domain_events)[2]
    /\ pulled' = pulled \o pull_events(domain_events)[1]
    /\ step' = "idle"
    /\ \/ /\ bus' = bus \o pull_events(domain_events)[1]
          /\ NoMoreCalls
       \* the bus does not accept the events: publish_many raises when
       \* pull_events has already emptied the buffer
       \/ /\ bus' = bus
          /\ call' = [op |-> "publish_many",
                      exc |-> [kind |-> "Exception", raised_by |-> "publish_many"],
                      ret |-> <<>>]
          /\ UNCHANGED <<id, title, slug, content, author_id, category_id, status,
                         tags, created_at, updated_at, published_at, comments,
                         now, emitted, workerVars, reactionVars>>
    /\ UNCHANGED <<repo, parked>>

\* the caller of a handler takes what handle returned or raised; inside
\* CreatePostHandler.handle the constructor has returned
Continue ==
    /\ \/ step = "idle"
       \/ step = "constructed" /\ call.op = "__init__"
    /\ Resume

NextCommands ==
    \/ \E ts \in TagLists : CreatePost_add_tags(ts)
    \/ \E p \in PostIds : get_by_id(p)
    \/ \E r \in UUIDs : PublishPost_publish(r)
    \/ \E r \in UUIDs : ArchivePost_archive(r)
    \/ \E b \in Bodies, u \in UUIDs : AddComment_add_comment(b, u)
    \/ handle_raises
    \/ save
    \/ publish_many
    \/ Continue

SpecCommands == Init /\ [][NextCommands]_vars

\* what a running handler holds: the aggregate it loaded, with its pending
\* events, and its position
Memory ==
    [post |-> Persisted, domain_events |-> domain_events, step |-> step,
     call |-> call]

\* the scheduler lets the other handler run: the handler that was running
\* waits with its memory, the one that waited goes on where it stopped.  The
\* steps of a handler on its own memory commute with the steps of the other
\* one, so a handler gives way between two handle calls, after get_by_id
\* and after save, where the order of the repository and bus calls is decided
Switch ==
    /\ parked # <<>>
    /\ call = Idle \/ step = "saved"
    /\ parked' = <<Memory>>
    /\ id' = parked[1].post.id
    /\ title' = parked[1].post.title
    /\ slug' = parked[1].post.slug
    /\ content' = parked[1].post.content
    /\ author_id' = parked[1].post.author_id
    /\ category_id' = parked[1].post.category_id
    /\ status' = parked[1].post.status
    /\ tags' = parked[1].post.tags
    /\ created_at' = parked[1].post.created_at
    /\ updated_at' = parked[1].post.updated_at
    /\ published_at' = parked[1].post.published_at
    /\ comments' = parked[1].post.comments
    /\ domain_events' = parked[1].domain_events
    /\ step' = parked[1].step
    /\ call' = parked[1].call
    /\ UNCHANGED <<now, emitted, pulled, workerVars, repo, bus, reactionVars>>

\* a saved draft with publishable content, its events published, and two
\* handlers that have not started
InitConcurrent ==
    /\ id = "p1"
    /\ title = <<"H", "i">>
    /\ slug = <<"h", "i">>
    /\ content = Rep("a", MIN_LENGTH_TO_PUBLISH)
    /\ author_id = "u1"
    /\ category_id = "None"
    /\ status = "draft"
    /\ tags = <<>>
    /\ created_at = 0
    /\ updated_at = 0
    /\ published_at = <<>>
    /\ comments = <<>>
    /\ domain_events = <<>>
    /\ now = MaxTime
    /\ call = Idle
    /\ emitted = <<>>
    /\ pulled = <<>>
    /\ NoDispatch
    /\ NoReaction
    /\ repo = <<Persisted>>
    /\ bus = <<>>
    /\ step = "idle"
    /\ parked = <<Memory>>

\* the commands are for the saved post, by its author, and carry a comment
\* body that is valid
NextConcurrent ==
    \/ get_by_id(repo[1].id)
    \/ PublishPost_publish(author_id)
    \/ ArchivePost_archive(author_id)
    \/ \E b \in { q \in Bodies : _validate_body(q) = NoException } :
          AddComment_add_comment(b, author_id)
    \/ handle_raises
    \/ save
    \/ publish_many
    \/ Continue
    \/ Switch

SpecConcurrent == InitConcurrent /\ [][NextConcurrent]_vars

\* ------------------------------------------------------------------------
\* Dispatch worker (src/config/celery_app.py)
\* ------------------------------------------------------------------------
\* options of the task dispatch_domain_event
max_retries == 3
default_retry_delay == 30

\* event type -> class name of its handler
EVENT_HANDLER_MAP ==
    [PostCreated |-> "OnPostCreated",
     PostPublished |-> "OnPostPublished",
     PostArchived |-> "OnPostArchived",
     CommentAdded |-> "OnCommentAdded",
     PostUpdated |-> "OnPostCreated"]

\* dict.get(key, default)
get(d, key, default) == IF key \in DOMAIN d THEN d[key] ELSE default

\* a lookup that falls back to the handler of PostCreated
handler_info_defaulting(event_type) ==
    IF event_type \in DOMAIN EVENT_HANDLER_MAP
    THEN <<EVENT_HANDLER_MAP[event_type]>>
    ELSE <<EVENT_HANDLER_MAP["PostCreated"]>>

\* EVENT_HANDLER_MAP.get(event_type): <<>> is None
handler_info(event_type) ==
    IF event_type \in DOMAIN EVENT_HANDLER_MAP
    THEN <<EVENT_HANDLER_MAP[event_type]>>
    ELSE <<>>

\* _build_handler: the collaborators each handler class is built with
handlers_config ==
    [OnPostPublished |-> {"cache_service"},
     OnCommentAdded |-> {},
     OnPostArchived |-> {"cache_service"},
     OnPostCreated |-> {}]

\* the fields of the event classes _reconstruct_event knows
event_classes ==
    [PostCreated |-> {"post_id", "author_id", "title"},
     PostPublished |-> {"post_id", "slug"},
     PostArchived |-> {"post_id"},
     CommentAdded |-> {"post_id", "comment_id", "author_id"}]

\* the fields every DomainEvent has
DomainEventFields == {"event_id", "occurred_at"}

\* UUID(v): the identifier a text denotes, "ValueError" for any other text
UUID(v) ==
    CASE v = "str(p1)" -> "p1"
      [] v = "str(u1)" -> "u1"
      [] v = "str(c1)" -> "c1"
      [] v = "str(e1)" -> "e1"
      [] OTHER -> "ValueError"

\* _reconstruct_event that gives up on a malformed identifier
_reconstruct_event_strict(event_type, payload) ==
    LET data == get(payload, "data", <<>>)
        keys == DOMAIN data \ {"event_id", "occurred_at"}
    IN  IF event_type \notin DOMAIN event_classes THEN <<>>
        ELSE IF ~(keys \subseteq event_classes[event_type] \cup DomainEventFields)
             THEN <<>>
        ELSE IF \E k \in keys \cap {"post_id", "comment_id", "author_id"} :
                    UUID(data[k]) = "ValueError"
             THEN <<>>
        ELSE << [type |-> event_type,
                 data |-> [k \in keys |->
                    IF k \in {"post_id", "comment_id", "author_id"}
                    THEN UUID(data[k]) ELSE data[k]]] >>

\* _reconstruct_event: <<event>>, or <<>> for None
_reconstruct_event(event_type, payload) ==
    LET data == get(payload, "data", <<>>)
        converted == [k \in DOMAIN data |->
            IF k \in {"post_id", "comment_id", "author_id", "event_id"}
            THEN IF data[k] = "" \/ data[k] = "None" THEN "None"
                 ELSE IF UUID(data[k]) = "ValueError" THEN data[k]
                 ELSE UUID(data[k])
            ELSE data[k]]
        keys == DOMAIN data \ {"event_id", "occurred_at"}
    IN  IF event_type \notin DOMAIN event_classes THEN <<>>
        ELSE IF ~(keys \subseteq event_classes[event_type] \cup DomainEventFields)
             THEN <<>>
        ELSE << [type |-> event_type,
                 data |-> [k \in keys |-> converted[k]]] >>

\* DomainEvent: event_id and occurred_at of an event constructed with the
\* keyword arguments kwargs as the n-th event of the process at time t; a
\* field that is not given comes from its default factory, uuid4() or
\* datetime.now(timezone.utc)
DomainEvent(kwargs, n, t) ==
    [event_id |-> IF "event_id" \in DOMAIN kwargs THEN kwargs["event_id"]
                  ELSE "uuid4()#" \o ToString(n),
     occurred_at |-> IF "occurred_at" \in DOMAIN kwargs THEN kwargs["occurred_at"]
                     ELSE "now()@" \o ToString(t)]

\* event_cls(**clean_data) in _reconstruct_event: the keyword arguments are
\* the entries of payload["data"] without event_id and occurred_at
clean_data(payload) ==
    LET data == get(payload, "data", <<>>)
    IN  [k \in DOMAIN data \ {"event_id", "occurred_at"} |-> data[k]]

\* the exception an attempt ended with
Exception(raised_by) == [kind |-> "Exception", raised_by |-> raised_by]

\* retry that grants a single retry
retry_once(msg, exc, t) ==
    IF msg.retries + 1 > 1
    THEN [queue |-> <<>>, outcome |-> "failure",
          result |-> [state |-> "FAILURE", value |-> <<exc>>]]
    ELSE [queue |-> << [payload |-> msg.payload, retries |-> msg.retries + 1,
                        eta |-> t + default_retry_delay] >>,
          outcome |-> "retry",
          result |-> [state |-> "RETRY", value |-> <<exc>>]]

\* retry that grants one retry more than max_retries
retry_one_more(msg, exc, t) ==
    IF msg.retries + 1 > max_retries + 1
    THEN [queue |-> <<>>, outcome |-> "failure",
          result |-> [state |-> "FAILURE", value |-> <<exc>>]]
    ELSE [queue |-> << [payload |-> msg.payload, retries |-> msg.retries + 1,
                        eta |-> t + default_retry_delay] >>,
          outcome |-> "retry",
          result |-> [state |-> "RETRY", value |-> <<exc>>]]

\* retry that ends the task quietly when the retries are used up
retry_giving_up_quietly(msg, exc, t) ==
    IF msg.retries + 1 > max_retries
    THEN [queue |-> <<>>, outcome |-> "ok",
          result |-> [state |-> "SUCCESS", value |-> <<>>]]
    ELSE [queue |-> << [payload |-> msg.payload, retries |-> msg.retries + 1,
                        eta |-> t + default_retry_delay] >>,
          outcome |-> "retry",
          result |-> [state |-> "RETRY", value |-> <<exc>>]]

\* raise self.retry(exc=exc) at time t: while request.retries + 1 does not
\* exceed max_retries the message is sent again with one retry more, to be
\* executed default_retry_delay later, and the task is in state RETRY;
\* otherwise exc is raised and the task ends in state FAILURE
retry(msg, exc, t) ==
    IF msg.retries + 1 > max_retries
    THEN [queue |-> <<>>, outcome |-> "failure",
          result |-> [state |-> "FAILURE", value |-> <<exc>>]]
    ELSE [queue |-> << [payload |-> msg.payload, retries |-> msg.retries + 1,
                        eta |-> t + default_retry_delay] >>,
          outcome |-> "retry",
          result |-> [state |-> "RETRY", value |-> <<exc>>]]

\* an except clause that logs the exception and reports ok
except_Exception_swallowed(msg, exc, t) ==
    [queue |-> <<>>, outcome |-> "ok", retry_requested |-> FALSE,
     result |-> [state |-> "SUCCESS",
                 value |-> << [status |-> "ok",
                               event_type |-> get(msg.payload, "event_type", ""),
                               handler |-> "None"] >>]]

\* except Exception as exc: raise self.retry(exc=exc)
except_Exception(msg, exc, t) ==
    [queue |-> retry(msg, exc, t).queue,
     outcome |-> retry(msg, exc, t).outcome,
     retry_requested |-> TRUE,
     result |-> retry(msg, exc, t).result]

\* the events of the five classes whose envelopes reach the worker
DomainEvents ==
    { [type |-> "PostCreated",
       data |-> [post_id |-> "p1", author_id |-> "u1", title |-> "Hi"]],
      [type |-> "PostPublished", data |-> [post_id |-> "p1", slug |-> "hi"]],
      [type |-> "PostArchived", data |-> [post_id |-> "p1"]],
      [type |-> "CommentAdded",
       data |-> [post_id |-> "p1", comment_id |-> "c1", author_id |-> "u1"]],
      [type |-> "PostUpdated", data |-> [post_id |-> "p1", new_title |-> "Hi"]] }

\* str(uuid): the text of an identifier
str(u) ==
    CASE u = "p1" -> "str(p1)"
      [] u = "u1" -> "str(u1)"
      [] u = "c1" -> "str(c1)"
      [] u = "e1" -> "str(e1)"

\* the envelope the queue-backed event bus sends for an event: the name of
\* its class, its event_id and occurred_at, and its fields as data, the
\* identifiers as text
to_envelope(event) ==
    [event_type |-> event.type, event_id |-> "str(e1)", occurred_at |-> "t0",
     data |-> [k \in DOMAIN event.data |->
                 IF k \in {"post_id", "comment_id", "author_id"}
                 THEN str(event.data[k]) ELSE event.data[k]]]

\* the envelopes handed to the worker
Envelope(event_type, data) ==
    [event_type |-> event_type, event_id |-> "str(e1)", occurred_at |-> "t0",
     data |-> data]
Envelopes ==
    { Envelope("PostCreated",
               [post_id |-> "str(p1)", author_id |-> "str(u1)", title |-> "Hi"]),
      Envelope("PostPublished", [post_id |-> "str(p1)", slug |-> "hi"]),
      Envelope("PostPublished", [post_id |-> "str(p1)", views |-> "1"]),
      Envelope("PostArchived", [post_id |-> "str(p1)"]),
      Envelope("PostArchived", [post_id |-> "not-a-uuid"]),
      Envelope("CommentAdded",
               [post_id |-> "str(p1)", comment_id |-> "str(c1)",
                author_id |-> "str(u1)"]),
      Envelope("PostUpdated", [post_id |-> "str(p1)", new_title |-> "Hi"]),
      Envelope("UserRegistered", [user_id |-> "str(u1)"]),
      Envelope("", [post_id |-> "str(p1)"]),
      [event_id |-> "str(e1)", data |-> [post_id |-> "str(p1)"]] }

\* the end of one execution of the task: what it leaves in the broker, the
\* state of the task, and the record of the attempt
Finish(msg, built, invoked, raised, end) ==
    /\ queue' = end.queue
    /\ result' = end.result
    /\ attempts' = Append(attempts,
            [at |-> clock, payload |-> msg.payload, retries |-> msg.retries,
             built |-> built, invoked |-> invoked, raised |-> raised,
             event |-> IF built
                       THEN _reconstruct_event(get(msg.payload, "event_type", ""),
                                               msg.payload)
                       ELSE <<>>,
             retry_requested |-> end.retry_requested, outcome |-> end.outcome])

\* one execution of the task dispatch_domain_event by the worker
dispatch_domain_event ==
    /\ queue # <<>>
    /\ clock >= Head(queue).eta
    /\ LET msg == Head(queue)
           payload == msg.payload
           event_type == get(payload, "event_type", "")
           info == handler_info(event_type)
       IN  IF info = <<>> THEN
               Finish(msg, FALSE, FALSE, "None",
                      [queue |-> <<>>, outcome |-> "skipped",
                       retry_requested |-> FALSE,
                       result |-> [state |-> "SUCCESS",
                                   value |-> << [status |-> "skipped",
                                                 event_type |-> event_type] >>]])
           ELSE
               LET class_name == info[1]
                   event == _reconstruct_event(event_type, payload)
                   ok == [queue |-> <<>>, outcome |-> "ok",
                          retry_requested |-> FALSE,
                          result |-> [state |-> "SUCCESS",
                                      value |-> << [status |-> "ok",
                                                    event_type |-> event_type,
                                                    handler |-> class_name] >>]]
               IN  \* _build_handler raises
                   \/ Finish(msg, FALSE, FALSE, "_build_handler",
                             except_Exception(msg, Exception("_build_handler"), clock))
                   \* no event was reconstructed: the handler is not called
                   \/ /\ event = <<>>
                      /\ Finish(msg, TRUE, FALSE, "None", ok)
                   \* handler.handle(event) returns
                   \/ /\ event # <<>>
                      /\ Finish(msg, TRUE, TRUE, "None", ok)
                   \* handler.handle(event) raises: a collaborator failed
                   \/ /\ event # <<>>
                      /\ handlers_config[class_name] # {}
                      /\ Finish(msg, TRUE, TRUE, "handle",
                                except_Exception(msg, Exception("handle"), clock))
    /\ UNCHANGED <<clock, aggVars, now, call, emitted, pulled, appVars, reactionVars>>

\* time passes while the message waits for its time of execution
Tick ==
    /\ queue # <<>>
    /\ clock < Head(queue).eta
    /\ clock' = clock + 1
    /\ UNCHANGED <<queue, attempts, result, aggVars, now, call, emitted, pulled,
                   appVars, reactionVars>>

\* dispatch_domain_event.delay(payload) was called at time 0; the worker
\* process holds no aggregate
InitDispatch ==
    /\ \E payload \in Envelopes :
          queue = << [payload |-> payload, retries |-> 0, eta |-> 0] >>
    /\ clock = 0
    /\ attempts = <<>>
    /\ result = Pending
    /\ id = "p1"
    /\ title = <<"H", "i">>
    /\ slug = <<"h", "i">>
    /\ content = <<"a">>
    /\ author_id = "u1"
    /\ category_id = "None"
    /\ status = "draft"
    /\ tags = <<>>
    /\ created_at = 0
    /\ updated_at = 0
    /\ published_at = <<>>
    /\ comments = <<>>
    /\ domain_events = <<>>
    /\ now = 0
    /\ call = Idle
    /\ emitted = <<>>
    /\ pulled = <<>>
    /\ NoReaction
    /\ repo = <<>>
    /\ parked = <<>>
    /\ bus = <<>>
    /\ step = "idle"

NextDispatch ==
    \/ dispatch_domain_event
    \/ Tick

SpecDispatch == InitDispatch /\ [][NextDispatch]_vars

\* the worker keeps consuming its queue and time keeps passing
FairSpecDispatch ==
    SpecDispatch /\ WF_vars(dispatch_domain_event) /\ WF_vars(Tick)

\* ------------------------------------------------------------------------
\* Worker crash and redelivery (acks_late)
\* ------------------------------------------------------------------------
\* a task whose message is acknowledged when the worker receives it
acks_on_receipt == FALSE

\* acks_late=True (and CELERY_TASK_ACKS_LATE): the message is acknowledged
\* after the task has been executed
acks_late == TRUE

\* the number of executions a worker crash has cut short
Crashes == Cardinality({ i \in 1..Len(attempts) : attempts[i].outcome = "crashed" })

\* the worker crashes while it executes the task, before or after it has
\* called the handler: a message that is not yet acknowledged stays in the
\* broker and is delivered again
WorkerCrash ==
    /\ queue # <<>>
    /\ clock >= Head(queue).eta
    /\ Crashes < MaxCrashes
    /\ LET msg == Head(queue)
           event_type == get(msg.payload, "event_type", "")
           info == handler_info(event_type)
       IN  \E invoked \in BOOLEAN :
            /\ invoked => /\ info # <<>>
                          /\ _reconstruct_event(event_type, msg.payload) # <<>>
            /\ attempts' = Append(attempts,
                    [at |-> clock, payload |-> msg.payload, retries |-> msg.retries,
                     built |-> invoked, invoked |-> invoked, raised |-> "None",
                     event |-> IF invoked
                               THEN _reconstruct_event(event_type, msg.payload)
                               ELSE <<>>,
                     retry_requested |-> FALSE, outcome |-> "crashed"])
    /\ queue' = IF acks_late THEN queue ELSE <<>>
    /\ UNCHANGED <<result, clock, aggVars, now, call, emitted, pulled,
                   appVars, reactionVars>>

NextRedelivery ==
    \/ dispatch_domain_event
    \/ Tick
    \/ WorkerCrash

SpecRedelivery == InitDispatch /\ [][NextRedelivery]_vars

\* a restarted worker keeps consuming its queue and time keeps passing
FairSpecRedelivery ==
    SpecRedelivery /\ WF_vars(dispatch_domain_event) /\ WF_vars(Tick)

\* ------------------------------------------------------------------------
\* Reaction handlers
\* (src/src/application/blog/event_handlers/post_event_handlers.py)
\* ------------------------------------------------------------------------
\* the entries of a filled cache; a key is <<prefix, rest>>, as in
\* f"posts:slug:{event.slug}", and <<prefix, "*">> is the pattern "prefix*"
CachedKeys ==
    { <<"posts:published:", "page1">>, <<"posts:published:", "page2">>,
      <<"posts:slug:", "hi">>, <<"posts:slug:", "other">>,
      <<"posts:id:", "p1">>, <<"posts:id:", "p2">> }

\* a cache client whose invalidate raises when no entry matches
invalidate_missing_raises(c, key_or_pattern) ==
    LET hit == IF key_or_pattern[2] = "*"
               THEN { k \in c : k[1] = key_or_pattern[1] }
               ELSE c \cap {key_or_pattern}
    IN  [cache |-> c \ hit, raises |-> hit = {}]

\* cache client: invalidate(key_or_pattern) drops the entries that match, and
\* an entry that is not there is no error
invalidate(c, key_or_pattern) ==
    LET hit == IF key_or_pattern[2] = "*"
               THEN { k \in c : k[1] = key_or_pattern[1] }
               ELSE c \cap {key_or_pattern}
    IN  [cache |-> c \ hit, raises |-> FALSE]

\* the calls handle makes on its collaborators, in the order of the code
handle_calls(cls, event) ==
    CASE cls = "OnPostPublished" ->
           << [on |-> "cache_service", method |-> "invalidate",
               args |-> <<"posts:published:", "*">>],
              [on |-> "cache_service", method |-> "invalidate",
               args |-> <<"posts:slug:", event.data.slug>>],
              [on |-> "email_service", method |-> "send_post_published_notification",
               args |-> <<event.data.post_id, event.data.slug>>] >>
      [] cls = "OnCommentAdded" ->
           << [on |-> "moderation_service", method |-> "check_comment",
               args |-> <<event.data.comment_id>>],
              [on |-> "notification_service", method |-> "notify_new_comment",
               args |-> <<event.data.post_id, event.data.comment_id>>] >>
      [] cls = "OnPostArchived" ->
           << [on |-> "cache_service", method |-> "invalidate",
               args |-> <<"posts:id:", event.data.post_id>>],
              [on |-> "cache_service", method |-> "invalidate",
               args |-> <<"posts:published:", "*">>],
              [on |-> "audit_log", method |-> "record",
               args |-> <<"post_archived", str(event.data.post_id)>>] >>
      [] cls = "OnPostCreated" ->
           << [on |-> "analytics_service", method |-> "track_post_created",
               args |-> <<event.data.post_id, event.data.author_id>>] >>

\* the optional collaborators of a handler class; each defaults to None
__init__(cls) ==
    CASE cls = "OnPostPublished" -> {"email_service", "cache_service"}
      [] cls = "OnCommentAdded" -> {"notification_service", "moderation_service"}
      [] cls = "OnPostArchived" -> {"cache_service", "audit_log"}
      [] cls = "OnPostCreated" -> {"analytics_service"}

\* _build_handler(class_name): the collaborators the worker injects, the
\* others stay None; health is "ok", or "failing" when every call on the
\* collaborator raises
_build_handler(class_name, health) ==
    [c \in __init__(class_name) |->
        IF c \in handlers_config[class_name] THEN health ELSE "None"]

\* a handler that calls its collaborators without looking at them
if_self_always(h, collaborator) == TRUE

\* if self._collaborator: the collaborator was given to the handler
if_self(h, collaborator) == h.collaborators[collaborator] # "None"

\* one worker, or two workers that were delivered the same envelope, hold a
\* handler for its event: built by _build_handler, or constructed with any
\* choice of collaborators
InitHandlers ==
    /\ \E event \in { e \in DomainEvents : e.type \in DOMAIN event_classes },
          workers \in 1..2, by \in {"_build_handler", "__init__"} :
         LET cls == EVENT_HANDLER_MAP[event.type] IN
         \E given \in IF by = "_build_handler"
                      THEN { _build_handler(cls, health) : health \in {"ok", "failing"} }
                      ELSE [__init__(cls) -> {"None", "ok", "failing"}] :
            handlers = [w \in 1..workers |->
                          [cls |-> cls, by |-> by, collaborators |-> given,
                           event |-> event, pc |-> 1, exc |-> NoException]]
    /\ cache = CachedKeys
    /\ effects = <<>>
    /\ NoDispatch
    /\ id = "p1"
    /\ title = <<"H", "i">>
    /\ slug = <<"h", "i">>
    /\ content = <<"a">>
    /\ author_id = "u1"
    /\ category_id = "None"
    /\ status = "draft"
    /\ tags = <<>>
    /\ created_at = 0
    /\ updated_at = 0
    /\ published_at = <<>>
    /\ comments = <<>>
    /\ domain_events = <<>>
    /\ now = 0
    /\ call = Idle
    /\ emitted = <<>>
    /\ pulled = <<>>
    /\ repo = <<>>
    /\ parked = <<>>
    /\ bus = <<>>
    /\ step = "idle"

\* the handler of worker w has returned from handle or has raised
Handled(w) ==
    \/ handlers[w].exc # NoException
    \/ handlers[w].pc > Len(handle_calls(handlers[w].cls, handlers[w].event))

\* handle(event) of the handler of worker w, up to its next call on a
\* collaborator: the call is skipped when the collaborator is None, it takes
\* effect, or it raises and the exception leaves handle
handle(w) ==
    /\ w \in DOMAIN handlers
    /\ ~Handled(w)
    /\ LET h == handlers[w]
           c == handle_calls(h.cls, h.event)[h.pc]
           done == IF c.method = "invalidate" THEN invalidate(cache, c.args)
                   ELSE [cache |-> cache, raises |-> FALSE]
       IN  IF ~if_self(h, c.on) THEN
               /\ handlers' = [handlers EXCEPT ![w].pc = h.pc + 1]
               /\ UNCHANGED <<cache, effects>>
           ELSE IF h.collaborators[c.on] # "ok" \/ done.raises THEN
               /\ handlers' = [handlers EXCEPT ![w].exc = Exception(c.method)]
               /\ UNCHANGED <<cache, effects>>
           ELSE
               /\ handlers' = [handlers EXCEPT ![w].pc = h.pc + 1]
               /\ cache' = done.cache
               /\ effects' = Append(effects, [worker |-> w, on |-> c.on,
                                              method |-> c.method, args |-> c.args])
    /\ UNCHANGED <<aggVars, now, call, emitted, pulled, workerVars, appVars>>

NextHandlers == \E w \in 1..2 : handle(w)

SpecHandlers == InitHandlers /\ [][NextHandlers]_vars

\* ------------------------------------------------------------------------
\* Properties
\* ------------------------------------------------------------------------
\* the last call raised an exception of that class
Raised(kind) == call.exc.kind = kind
\* this step is a call of op that returned
Succeeds(op) == call'.op = op /\ call'.exc = NoException
\* this step is a call that raised kind and left the aggregate as it was
Fails(kind) == call'.exc.kind = kind /\ UNCHANGED aggVars

\* C1: publish() returns if and only if status = Draft and the trimmed
\* content has at least 100 characters; it raises PostAlreadyPublishedError
\* on a published post, PostArchivedError on an archived post (whatever the
\* content) and InvalidPostContentError on a draft with shorter content.
C1_PublishOutcome ==
    [][(call'.op = "publish" /\ publish) =>
        /\ (call'.exc = NoException)
              <=> (status = "draft" /\ Len(Strip(content)) >= 100)
        /\ status = "published" => call'.exc.kind = "PostAlreadyPublishedError"
        /\ status = "archived" => call'.exc.kind = "PostArchivedError"
        /\ (status = "draft" /\ Len(Strip(content)) < 100)
              => call'.exc.kind = "InvalidPostContentError"
      ]_vars

\* publish() refused a draft whose content has 100 characters or more, of
\* which fewer than 100 are left after trimming
C1_Witness ==
    /\ call.op = "publish"
    /\ Raised("InvalidPostContentError")
    /\ status = "draft"
    /\ Len(content) >= 100

\* C2: the status changes only by Draft->Published, Draft->Archived or
\* Published->Archived, and publish() never returns on a published post.
C2_StatusTransitions ==
    [][/\ status' # status =>
            <<status, status'>> \in { <<"draft", "published">>,
                                      <<"draft", "archived">>,
                                      <<"published", "archived">> }
       /\ (call'.op = "publish" /\ status = "published")
            => call'.exc # NoException
      ]_vars

\* a post that was published and then archived, and on which publish() was
\* called again
C2_Witness ==
    /\ status = "archived"
    /\ published_at # <<>>
    /\ call.op = "publish"
    /\ Raised("PostArchivedError")

\* C3: once status = Archived it stays Archived, and every later publish(),
\* update(...) and add_comment(...) raises.
C3_ArchivedIsTerminal ==
    [][status = "archived" =>
        /\ status' = "archived"
        /\ call'.op \in {"publish", "update", "add_comment"}
              => call'.exc # NoException
      ]_vars

\* add_comment was refused on an archived post
C3_Witness ==
    /\ status = "archived"
    /\ call.op = "add_comment"
    /\ Raised("CommentNotAllowedError")

\* C4: pull_events() returns the events of the buffer in the order in which
\* they were recorded and empties the buffer, so that the buffer is still
\* empty when the caller, having taken the result, calls again; a call on
\* an empty buffer returns the empty sequence; no call raises.
C4_PullEvents ==
    [][/\ call'.op = "pull_events" =>
            /\ call'.exc = NoException
            /\ call'.ret = SubSeq(emitted, Len(pulled) + 1, Len(emitted))
            /\ domain_events' = <<>>
            /\ Len(domain_events) = 0 => Len(call'.ret) = 0
       /\ (call.op = "pull_events" /\ call' = Idle) => domain_events' = <<>>
      ]_vars

\* a pull_events() call that returned two events or more
C4_Witness ==
    /\ call.op = "pull_events"
    /\ Len(call.ret) >= 2
    /\ domain_events = <<>>

\* C5: the results of all pull_events() calls, concatenated, followed by
\* the buffer are the events recorded so far, in the order of recording.
C5_ExactlyOnceHandOff == pulled \o domain_events = emitted

\* events were pulled, and others recorded since
C5_Witness ==
    /\ pulled # <<>>
    /\ Len(domain_events) >= 2

\* C6: a publish() that returns sets status to Published, sets published_at
\* and updated_at to readings of the clock taken during the call, and
\* appends exactly one event, a PostPublished with the aggregate's id and
\* the slug the post has at that moment.
C6_PublishEffect ==
    [][Succeeds("publish") =>
        /\ status' = "published"
        /\ Len(published_at') = 1
        /\ published_at'[1] \in now..now'
        /\ updated_at' \in now..now'
        /\ domain_events' = Append(domain_events,
              [type |-> "PostPublished", post_id |-> id, slug |-> slug])
        /\ emitted' = Append(emitted,
              [type |-> "PostPublished", post_id |-> id, slug |-> slug])
        /\ slug' = slug
      ]_vars

\* publish() returned on a post whose title had been updated before, while
\* the PostCreated event was still in the buffer
C6_Witness ==
    /\ call.op = "publish"
    /\ call.exc = NoException
    /\ Len(domain_events) = 3
    /\ domain_events[3].type = "PostPublished"
    /\ domain_events[3].slug = <<"a", "-", "b">>

\* C7: archive(requester) raises UnauthorizedPostActionError whenever the
\* requester is not the author, in every status; for the author it raises
\* PostArchivedError on an archived post and otherwise sets status to
\* Archived and appends exactly one PostArchived event with the post id.
C7_Archive ==
    [][\A r \in UUIDs : (call'.op = "archive" /\ archive(r)) =>
        /\ r # author_id => Fails("UnauthorizedPostActionError")
        /\ (r = author_id /\ status = "archived") => Fails("PostArchivedError")
        /\ (r = author_id /\ status # "archived") =>
              /\ call'.exc = NoException
              /\ status' = "archived"
              /\ domain_events' = Append(domain_events,
                    [type |-> "PostArchived", post_id |-> id])
      ]_vars

\* someone else than the author called archive on an archived post
C7_Witness ==
    /\ status = "archived"
    /\ call.op = "archive"
    /\ Raised("UnauthorizedPostActionError")

\* C8: update(new_title, new_content, requester) raises
\* UnauthorizedPostActionError when the requester is not the author and
\* PostArchivedError when the author updates an archived post; when it
\* returns, title, slug and content are those of the arguments, updated_at
\* is a reading of the clock taken during the call, the status is unchanged
\* and exactly one event was appended, a PostUpdated with the post id and
\* the new title.
C8_Update ==
    [][\A t \in NewTitles, c \in Contents, r \in UUIDs :
        (call'.op = "update" /\ update(t, c, r)) =>
        /\ r # author_id => Fails("UnauthorizedPostActionError")
        /\ (r = author_id /\ status = "archived") => Fails("PostArchivedError")
        /\ call'.exc = NoException =>
              /\ title' = t
              /\ slug' = to_slug(t).value
              /\ content' = c
              /\ updated_at' \in now..now'
              /\ status' = status
              /\ domain_events' = Append(domain_events,
                    [type |-> "PostUpdated", post_id |-> id, new_title |-> t])
      ]_vars

\* update returned on a published post and gave it another title and slug
C8_Witness ==
    /\ call.op = "update"
    /\ call.exc = NoException
    /\ status = "published"
    /\ domain_events # <<>>
    /\ domain_events[Len(domain_events)].type = "PostUpdated"
    /\ emitted[1].title # title

\* C9: add_comment(body, commenter) raises CommentNotAllowedError on an
\* archived post; on a draft or published post, with a body that is not
\* blank and not longer than 1000 characters, it appends one new comment to
\* the collection, appends exactly one CommentAdded event with the
\* aggregate id, the new comment's id and the commenter, and returns that
\* comment.
C9_AddComment ==
    [][\A b \in Bodies, u \in UUIDs :
        (call'.op = "add_comment" /\ add_comment(b, u)) =>
        /\ status = "archived" => Fails("CommentNotAllowedError")
        /\ (status # "archived" /\ Strip(b) # <<>> /\ Len(b) <= 1000) =>
              /\ call'.exc = NoException
              /\ Len(call'.ret) = 1
              /\ \A i \in 1..Len(comments) : comments[i].id # call'.ret[1].id
              /\ call'.ret[1].author_id = u
              /\ comments' = Append(comments, call'.ret[1])
              /\ domain_events' = Append(domain_events,
                    [type |-> "CommentAdded", post_id |-> id,
                     comment_id |-> call'.ret[1].id, author_id |-> u])
      ]_vars

\* add_comment returned on a published post, for a commenter who is not the
\* author of the post
C9_Witness ==
    /\ call.op = "add_comment"
    /\ call.exc = NoException
    /\ status = "published"
    /\ Len(comments) = 1
    /\ comments[1].author_id # author_id

\* C10: remove_comment(comment_id, requester) on an aggregate without a
\* comment of that id raises the not-found kind (NotFoundError or
\* PostNotFoundError), which is not ValidationError, and leaves the
\* aggregate unchanged.
C10_RemoveMissingComment ==
    [][\A c \in CommentIds, u \in UUIDs :
        (/\ call'.op = "remove_comment"
         /\ remove_comment(c, u)
         /\ \A i \in 1..Len(comments) : comments[i].id # c)
        => /\ call'.exc.kind \in {"NotFoundError", "PostNotFoundError"}
           /\ UNCHANGED aggVars
      ]_vars

\* C11: remove_comment(comment_id, requester) on a comment the aggregate
\* holds returns if and only if the requester is the author of the comment;
\* it then marks the comment deleted, sets its body to the tombstone, and
\* the comment is no longer in the comments view but still in all_comments.
\* For any other requester it raises UnauthorizedPostActionError and the
\* comment keeps its body and its flag. A deleted comment stays deleted.
C11_RemoveComment ==
    /\ [][\A c \in CommentIds, u \in UUIDs :
            (/\ call'.op = "remove_comment"
             /\ remove_comment(c, u)
             /\ \E i \in 1..Len(comments) : comments[i].id = c)
            => LET i == FindComment(c) IN
               /\ (call'.exc = NoException) <=> (u = comments[i].author_id)
               /\ u = comments[i].author_id =>
                     /\ Len(all_comments') = Len(all_comments)
                     /\ all_comments'[i].id = c
                     /\ all_comments'[i].is_deleted
                     /\ all_comments'[i].body = Tombstone
                     /\ \A j \in 1..Len(comments_view') : comments_view'[j].id # c
                     /\ \A j \in 1..Len(comments) :
                           j # i => all_comments'[j] = all_comments[j]
               /\ u # comments[i].author_id =>
                     /\ call'.exc.kind = "UnauthorizedPostActionError"
                     /\ comments'[i].body = comments[i].body
                     /\ comments'[i].is_deleted = comments[i].is_deleted
                     /\ UNCHANGED aggVars
         ]_vars
    /\ [][\A i \in 1..Len(comments) :
            comments[i].is_deleted =>
                /\ Len(comments') >= i
                /\ comments'[i].id = comments[i].id
                /\ comments'[i].is_deleted
         ]_vars

\* the author of a comment removed it: the aggregate still holds it, with
\* the tombstone as body, and the comments view is empty
C11_Witness ==
    /\ call.op = "remove_comment"
    /\ call.exc = NoException
    /\ Len(all_comments) = 1
    /\ all_comments[1].is_deleted
    /\ all_comments[1].body = Tombstone
    /\ comments_view = <<>>

\* C12: on a constructor-created aggregate that only receives add_tags
\* calls, every tag is lowercase, trimmed and not empty, no tag occurs
\* twice, and add_tags(ts) never raises, keeps the tags it found in their
\* places and appends the normalised entries of ts that are new, each once,
\* in the order of their first occurrence in ts; when every entry of ts is
\* blank or a case/whitespace variant of a tag already held, the list is
\* unchanged.
C12_Tags ==
    /\ [](\A i, j \in 1..Len(tags) :
              /\ tags[i] # <<>>
              /\ Lower(tags[i]) = tags[i]
              /\ Strip(tags[i]) = tags[i]
              /\ tags[i] = tags[j] => i = j)
    /\ [][\A ts \in TagInputs : (call'.op = "add_tags" /\ add_tags(ts)) =>
            LET norm == [i \in 1..Len(ts) |-> Strip(Lower(ts[i]))]
                held(t) == \E i \in 1..Len(tags) : tags[i] = t
                first(t) == CHOOSE i \in 1..Len(ts) :
                               /\ norm[i] = t
                               /\ \A j \in 1..(i-1) : norm[j] # t
            IN  /\ call'.exc = NoException
                /\ Len(tags') >= Len(tags)
                /\ SubSeq(tags', 1, Len(tags)) = tags
                /\ \A i \in 1..Len(ts) :
                      (norm[i] # <<>>) => \E k \in 1..Len(tags') : tags'[k] = norm[i]
                /\ \A k \in (Len(tags)+1)..Len(tags') :
                      /\ ~held(tags'[k])
                      /\ \E i \in 1..Len(ts) : norm[i] = tags'[k]
                /\ \A k, l \in (Len(tags)+1)..Len(tags') :
                      k < l => first(tags'[k]) < first(tags'[l])
                /\ (\A i \in 1..Len(ts) : norm[i] = <<>> \/ held(norm[i]))
                      => tags' = tags
         ]_vars

\* add_tags(["A"]) and then add_tags(["I", "B", "i"]): the tags are
\* "a", "i", "b"
C12_Witness ==
    /\ call.op = "add_tags"
    /\ tags = << <<"a">>, <<"i">>, <<"b">> >>

\* C13: the aggregate reconstitute returns has the id, status, content,
\* author, tags, category, comments and publication time it was given and
\* an empty buffer, and a pull_events() that comes before any operation
\* has recorded an event returns the empty sequence.
C13_Reconstitute ==
    /\ [](call.op = "reconstitute" =>
            /\ id = call.args.post_id
            /\ status = call.args.status
            /\ content = call.args.content
            /\ author_id = call.args.author_id
            /\ tags = call.args.tags
            /\ category_id = call.args.category_id
            /\ comments = call.args.comments
            /\ published_at = call.args.published_at
            /\ domain_events = <<>>)
    /\ [][(call'.op = "pull_events" /\ pulled = <<>>
            /\ \A i \in 1..Len(emitted) : emitted[i].type = "PostCreated")
           => call'.ret = <<>>]_vars

\* pull_events() returned on a published aggregate that was loaded with a
\* tag and a comment, before any operation recorded an event
C13_Witness ==
    /\ call.op = "pull_events"
    /\ call.ret = <<>>
    /\ emitted = <<>>
    /\ status = "published"
    /\ tags # <<>>
    /\ comments # <<>>

\* C14: an aggregate the constructor has just returned is a draft without
\* comments, tags or publication time, and its buffer holds exactly one
\* event: PostCreated with the id of the aggregate, the author and the
\* title.
C14_Constructor ==
    call.op = "__init__" =>
        /\ status = "draft"
        /\ comments = <<>>
        /\ tags = <<>>
        /\ published_at = <<>>
        /\ Len(domain_events) = 1
        /\ domain_events[1] = [type |-> "PostCreated", post_id |-> id,
                               author_id |-> author_id, title |-> title]

\* the constructor has returned an aggregate titled "Hi"
C14_Witness ==
    /\ call.op = "__init__"
    /\ call.exc = NoException
    /\ title = <<"H", "i">>
    /\ Len(domain_events) = 1

\* C15: every exception an operation of the aggregate raises, a failure
\* to build a title, a slug, a content or a comment body included, is of
\* one of the enumerated kinds: PostAlreadyPublishedError,
\* PostArchivedError, InvalidPostContentError,
\* UnauthorizedPostActionError, CommentNotAllowedError, the not-found
\* kind (NotFoundError, PostNotFoundError) or ValidationError.
C15_EnumeratedKinds ==
    call.exc.kind \in {"None",
                       "PostAlreadyPublishedError", "PostArchivedError",
                       "InvalidPostContentError", "UnauthorizedPostActionError",
                       "CommentNotAllowedError", "NotFoundError",
                       "PostNotFoundError", "ValidationError"}

\* the attempts made so far all ended with an exception
AllAttemptsRaised == \A i \in 1..Len(attempts) : attempts[i].raised # "None"
\* the task has ended and no message is left in the broker
Done == queue = <<>> /\ result.state \in {"SUCCESS", "FAILURE"}

C17_TerminalFailure ==
    /\ <>Done
    /\ [](Done /\ attempts # <<>> /\ AllAttemptsRaised =>
            /\ result.state = "FAILURE"
            /\ result.value =
                  << [kind |-> "Exception",
                      raised_by |-> attempts[Len(attempts)].raised] >>
            /\ attempts[Len(attempts)].outcome = "failure")
    /\ [](result.state = "FAILURE" => queue = <<>>)
    /\ [][result.state = "FAILURE" => UNCHANGED <<attempts, queue, result>>]_vars

\* the handler of a PostPublished envelope raised in every execution and
\* the task has failed
C17_Witness ==
    /\ result.state = "FAILURE"
    /\ queue = <<>>
    /\ \A i \in 1..Len(attempts) :
          /\ attempts[i].raised = "handle"
          /\ attempts[i].payload.event_type = "PostPublished"
    /\ Len(attempts) = 1 + max_retries

\* C18: while at most two executions were made and each ended with an
\* exception, the task is in state RETRY with the next execution queued,
\* not failed; and when the first two executions raised and the third did
\* not, the task ends with the result {status ok, event_type, handler}.
C18_ThirdAttemptSucceeds ==
    /\ (Len(attempts) \in {1, 2} /\ AllAttemptsRaised) =>
          /\ result.state = "RETRY"
          /\ queue # <<>>
    /\ (/\ Len(attempts) = 3
        /\ attempts[1].raised # "None"
        /\ attempts[2].raised # "None"
        /\ attempts[3].raised = "None") =>
          /\ queue = <<>>
          /\ result =
                [state |-> "SUCCESS",
                 value |-> << [status |-> "ok",
                               event_type |-> attempts[3].payload.event_type,
                               handler |-> EVENT_HANDLER_MAP[
                                              attempts[3].payload.event_type]] >>]

\* the handler raised in the first two executions and returned in the third
C18_Witness ==
    /\ Len(attempts) = 3
    /\ attempts[1].raised = "handle"
    /\ attempts[2].raised = "handle"
    /\ attempts[3].invoked
    /\ attempts[3].raised = "None"
    /\ result.state = "SUCCESS"

\* C19: an execution in which handler.handle raised ends in the except
\* clause with self.retry(exc): the retry is requested, the execution ends
\* as a retry (the message is queued again with one retry more, the task
\* is in state RETRY) or, with the retries used up, as the failure of the
\* task with that exception; its result is never ok or skipped.
C19_HandlerExceptionRetried ==
    [][(attempts' # attempts /\ attempts'[Len(attempts')].raised = "handle") =>
        LET a == attempts'[Len(attempts')] IN
        /\ a.invoked
        /\ a.retry_requested
        /\ a.outcome \in {"retry", "failure"}
        /\ result'.state \in {"RETRY", "FAILURE"}
        /\ result'.value = << [kind |-> "Exception", raised_by |-> "handle"] >>
        /\ a.retries < 3 =>
              /\ a.outcome = "retry"
              /\ result'.state = "RETRY"
              /\ queue' = << [payload |-> a.payload, retries |-> a.retries + 1,
                              eta |-> a.at + 30] >>
        /\ a.retries >= 3 => (result'.state = "FAILURE" /\ queue' = <<>>)
      ]_vars

\* the handler of a PostArchived envelope raised in the first execution
\* and the retry is queued
C19_Witness ==
    /\ Len(attempts) = 1
    /\ attempts[1].raised = "handle"
    /\ attempts[1].payload.event_type = "PostArchived"
    /\ result.state = "RETRY"
    /\ queue # <<>>

\* C20: an execution for an envelope whose event_type is missing, empty
\* or not a key of EVENT_HANDLER_MAP returns {status skipped, event_type}
\* (event_type "" when it is missing): no handler is built or called, no
\* retry is requested, nothing is raised, and no message is left.
C20_UnknownTypeSkipped ==
    [][(/\ attempts' # attempts
        /\ get(Head(queue).payload, "event_type", "")
              \notin {"PostCreated", "PostPublished", "PostArchived",
                      "CommentAdded", "PostUpdated"}) =>
        LET a == attempts'[Len(attempts')] IN
        /\ result' = [state |-> "SUCCESS",
                      value |-> << [status |-> "skipped",
                                    event_type |->
                                        IF "event_type" \in DOMAIN a.payload
                                        THEN a.payload.event_type ELSE ""] >>]
        /\ ~a.built
        /\ ~a.invoked
        /\ ~a.retry_requested
        /\ a.raised = "None"
        /\ a.outcome = "skipped"
        /\ queue' = <<>>
        /\ Len(attempts') = 1
      ]_vars

\* an envelope without event_type was skipped
C20_Witness ==
    /\ Len(attempts) = 1
    /\ "event_type" \notin DOMAIN attempts[1].payload
    /\ attempts[1].outcome = "skipped"
    /\ result.value = << [status |-> "skipped", event_type |-> ""] >>

C22_EnvelopeRoundTrip ==
    \A i \in 1..Len(attempts) : \A e \in DomainEvents :
        (attempts[i].built /\ attempts[i].payload = to_envelope(e)) =>
            /\ attempts[i].event # <<>>
            /\ attempts[i].event[1].type = e.type
            /\ attempts[i].event[1].data = e.data

\* C23: the reconstruction of the event never raises: no execution ends
\* with an exception of _reconstruct_event. For an event_type it knows no
\* class of it yields no event, and for a known class an identifier field
\* whose text is no identifier is handed on as that text in the
\* reconstructed event, next to the other fields.
C23_PartialDecode ==
    \A i \in 1..Len(attempts) :
        LET a == attempts[i]
            data == a.payload.data
        IN  a.built =>
            /\ a.raised \in {"None", "handle"}
            /\ a.payload.event_type
                  \notin {"PostCreated", "PostPublished", "PostArchived",
                          "CommentAdded"} => a.event = <<>>
            /\ (/\ a.payload.event_type = "PostArchived"
                /\ DOMAIN data = {"post_id"}
                /\ data.post_id \notin {"", "None", "str(p1)", "str(u1)",
                                        "str(c1)", "str(e1)"})
                => a.event = << [type |-> "PostArchived",
                                 data |-> [post_id |-> data.post_id]] >>

\* the handler of PostArchived was called with an event whose post_id is
\* the text "not-a-uuid"
C23_Witness ==
    /\ attempts # <<>>
    /\ attempts[1].invoked
    /\ attempts[1].payload.data.post_id = "not-a-uuid"
    /\ attempts[1].event # <<>>
    /\ attempts[1].event[1].data.post_id = "not-a-uuid"

\* C24: an execution for an envelope with a registered handler whose event
\* could not be reconstructed still calls the handler, requests no retry
\* and raises nothing.
C24_DegradedDispatch ==
    \A i \in 1..Len(attempts) :
        (/\ attempts[i].built
         /\ attempts[i].event = <<>>
         /\ attempts[i].outcome # "crashed") =>
            /\ attempts[i].invoked
            /\ ~attempts[i].retry_requested
            /\ attempts[i].raised = "None"
            /\ attempts[i].outcome = "ok"

\* C25: no execution requests a retry because the handler of the
\* envelope's type could not be located or built.
C25_BuildFailureNotRetried ==
    \A i \in 1..Len(attempts) :
        attempts[i].raised = "_build_handler" =>
            /\ ~attempts[i].retry_requested
            /\ attempts[i].outcome # "retry"

\* C26: in every command handler the events reach the bus only after the save
\* of that aggregate returned: the bus changes only in the step that follows a
\* save that returned, the repository then holds the aggregate the events come
\* from, and the bus takes exactly the events the aggregate held; when the
\* post is not found, the operation raises or save raises, the bus is left as
\* it was and the handler is over
C26_PublishAfterSave ==
    /\ [][bus' # bus =>
            /\ step = "saved"
            /\ call = [op |-> "save", exc |-> NoException, ret |-> <<>>]
            /\ repo = <<Persisted>>
            /\ bus' = bus \o domain_events
            /\ domain_events' = <<>>]_vars
    /\ [][step' = "saved" => (BeforeSave /\ repo' = <<Persisted>>)]_vars
    /\ [][(call'.exc # NoException /\ call' # call) =>
            (bus' = bus /\ step' \in {"idle", "loaded"})]_vars
    /\ [][(step = "loaded" /\ call.exc # NoException) =>
            (bus' = bus /\ step' = "idle")]_vars
    /\ [][(step = "idle" /\ step' = "idle") => bus' = bus]_vars

\* a publish command whose save raised and whose events never reached the
\* bus, followed by one that went through
C26_Witness ==
    /\ step = "idle"
    /\ Len(bus) = 2
    /\ bus[2].type = "PostPublished"
    /\ repo # <<>>
    /\ repo[1].status = "published"
    /\ Len(emitted) = 3
    /\ emitted[2].type = "PostPublished"


\* C27: OnPostPublished and OnPostArchived are idempotent under duplicate
\* delivery: with collaborators that work, as soon as one worker has handled
\* the event the cache is what one run of handle leaves (the entries its two
\* invalidate calls match are gone, the others are kept), it stays so while
\* and after a second worker handles the same event, in any interleaving, and
\* no run raises
C27_IdempotentReaction ==
    \A w \in DOMAIN handlers :
        LET h == handlers[w]
            calls == handle_calls(h.cls, h.event)
            once == IF if_self(h, "cache_service")
                    THEN invalidate(invalidate(CachedKeys, calls[1].args).cache,
                                    calls[2].args).cache
                    ELSE CachedKeys
        IN  (/\ h.cls \in {"OnPostPublished", "OnPostArchived"}
             /\ \A c \in DOMAIN h.collaborators : h.collaborators[c] # "failing")
            => /\ h.exc = NoException
               /\ Handled(w) => cache = once
               /\ (\A v \in DOMAIN handlers : Handled(v)) =>
                     \A v \in DOMAIN handlers : handlers[v].exc = NoException

\* two workers have handled the same PostPublished event with the handler the
\* dispatch worker builds, and the entries were dropped
C27_Witness ==
    /\ Len(handlers) = 2
    /\ handlers[1].cls = "OnPostPublished"
    /\ handlers[1].by = "_build_handler"
    /\ handlers[1].collaborators["cache_service"] = "ok"
    /\ Handled(1) /\ Handled(2)
    /\ Len(effects) = 4
    /\ effects[3].worker # effects[2].worker
    /\ <<"posts:slug:", "hi">> \notin cache
    /\ <<"posts:slug:", "other">> \in cache


\* C28: on PostPublished a worker's handler invalidates the published-list
\* entries and the entry of the event's slug before it notifies the author;
\* a handler built by the dispatch worker that has returned has made the
\* three calls; and when the cache client raises, the handler raises and has
\* sent no notification
C28_PublishedReaction ==
    \A w \in DOMAIN handlers :
        LET h == handlers[w]
            mine == SelectSeq(effects, LAMBDA e : e.worker = w)
            methods == [i \in DOMAIN mine |-> mine[i].method]
        IN  h.cls = "OnPostPublished" =>
            /\ \A i \in DOMAIN mine :
                  (mine[i].on = "email_service" /\ if_self(h, "cache_service")) =>
                      /\ i = 3
                      /\ mine[1].args = <<"posts:published:", "*">>
                      /\ mine[2].args = <<"posts:slug:", h.event.data.slug>>
            /\ (h.by = "_build_handler" /\ Handled(w) /\ h.exc = NoException) =>
                  methods = <<"invalidate", "invalidate",
                              "send_post_published_notification">>
            /\ h.collaborators["cache_service"] = "failing" =>
                  /\ mine = <<>>
                  /\ Handled(w) => h.exc # NoException

\* C29: for each of the four handlers and each choice of its optional
\* collaborators among None and a collaborator that works: handle raises
\* nothing, and once it has returned, the calls it made are exactly the calls
\* of the code on the collaborators that were given, in the order of the
\* code; nothing was called for a collaborator that is None
C29_OptionalCollaborators ==
    \A w \in DOMAIN handlers :
        LET h == handlers[w]
            mine == SelectSeq(effects, LAMBDA e : e.worker = w)
            made == [i \in DOMAIN mine |->
                        [on |-> mine[i].on, method |-> mine[i].method,
                         args |-> mine[i].args]]
            given == SelectSeq(handle_calls(h.cls, h.event),
                               LAMBDA c : h.collaborators[c.on] = "ok")
        IN  (\A c \in DOMAIN h.collaborators : h.collaborators[c] # "failing")
            => /\ h.exc = NoException
               /\ \A i \in DOMAIN made : h.collaborators[made[i].on] = "ok"
               /\ Handled(w) => made = given

\* OnPostArchived without a cache client and with an audit log has returned:
\* the invalidations were skipped and the audit record was written
C29_Witness ==
    /\ Len(handlers) = 1
    /\ handlers[1].cls = "OnPostArchived"
    /\ handlers[1].collaborators["cache_service"] = "None"
    /\ handlers[1].collaborators["audit_log"] = "ok"
    /\ Handled(1)
    /\ handlers[1].exc = NoException
    /\ Len(effects) = 1
    /\ effects[1].method = "record"

\* C30: every comment the aggregate holds has a body that is trimmed, not
\* empty and at most MAX_LENGTH characters long, or is the tombstone marker
\* once it is deleted; add_comment on a post that is not archived raises
\* ValidationError for a body that is empty after trimming or whose trimmed
\* length exceeds MAX_LENGTH, and accepts every other body: the comment with
\* the trimmed body is appended and returned
C30_CommentBody ==
    /\ [](\A i \in 1..Len(comments) :
            \/ /\ comments[i].body # <<>>
               /\ Strip(comments[i].body) = comments[i].body
               /\ Len(comments[i].body) <= MAX_LENGTH
            \/ comments[i].is_deleted /\ comments[i].body = Tombstone)
    /\ [][\A b \in Bodies \cup LongBodies, u \in UUIDs :
            (call'.op = "add_comment" /\ add_comment(b, u) /\ ~is_archived) =>
                IF Strip(b) = <<>> \/ Len(Strip(b)) > MAX_LENGTH THEN
                    /\ Fails("ValidationError")
                ELSE
                    /\ Succeeds("add_comment")
                    /\ Len(comments') = Len(comments) + 1
                    /\ comments'[Len(comments')].body = Strip(b)
                    /\ call'.ret = <<comments'[Len(comments')]>>]_vars

\* C31: a failing operation is atomic: whenever publish, archive, update,
\* add_comment or remove_comment raises, status, title, slug, content, tags,
\* comments, the timestamps and the buffer of pending events are as they were
\* before the call
C31_FailingOperationAtomic ==
    [][(/\ call'.op \in {"publish", "archive", "update", "add_comment",
                         "remove_comment"}
        /\ call'.exc # NoException)
       => UNCHANGED aggVars]_vars

\* C34: in every reachable state of a constructor-created aggregate the slug
\* is the slug derived from the current title
C34_SlugOfTitle ==
    /\ to_slug(title).ok
    /\ slug = to_slug(title).value

\* C32: an execution that reports ok for an envelope of one of the five
\* registered event types has called handle of the resolved handler; ok is
\* never reported when the handler did not run
C32_OkMeansHandled ==
    \A i \in 1..Len(attempts) :
        (/\ attempts[i].outcome = "ok"
         /\ get(attempts[i].payload, "event_type", "") \in DOMAIN EVENT_HANDLER_MAP)
        => /\ attempts[i].built
           /\ attempts[i].invoked
           /\ attempts[i].raised = "None"

\* C38: the event handed to a handler carries the event_id and the
\* occurred_at of the envelope it was reconstructed from, so that two
\* deliveries of one envelope hand the same identity and time to the handler
C38_EventIdentityKept ==
    \A i \in 1..Len(attempts) :
        attempts[i].invoked =>
            LET payload == attempts[i].payload
                event == DomainEvent(clean_data(payload), i, attempts[i].at)
            IN  /\ event.event_id = UUID(get(payload, "event_id", ""))
                /\ event.occurred_at = get(payload, "occurred_at", "")
                /\ \A j \in 1..Len(attempts) :
                      (attempts[j].invoked /\ attempts[j].payload = payload) =>
                          DomainEvent(clean_data(payload), j, attempts[j].at) = event

\* C33: when publish_many raises after a save that returned, the events of
\* the persisted mutation are not lost: they are still in the buffer of
\* pending events of the aggregate
C33_EventsKeptOnBusFailure ==
    [][(/\ step = "saved"
        /\ call'.op = "publish_many"
        /\ call'.exc # NoException)
       => /\ repo = <<Persisted>>
          /\ domain_events' = domain_events]_vars

\* C35: in every reachable state with status = published the content is
\* publishable: its trimmed length is at least MIN_LENGTH_TO_PUBLISH
C35_PublishedIsPublishable ==
    is_published => Len(Strip(content)) >= MIN_LENGTH_TO_PUBLISH

\* C36: whenever publish raises InvalidPostContentError, the current length
\* it reports is less than the minimum it reports, which is
\* MIN_LENGTH_TO_PUBLISH, and is the length the publishability check used,
\* the length of the trimmed content
C36_ReportedLength ==
    [][(call'.op = "publish" /\ publish /\ Raised("InvalidPostContentError")') =>
          /\ call'.exc.min_length = MIN_LENGTH_TO_PUBLISH
          /\ call'.exc.current_length < call'.exc.min_length
          /\ call'.exc.current_length = Len(Strip(content))]_vars

\* C37: over the whole life of a constructor-created aggregate, across all
\* calls of pull_events, the sequence of recorded events starts with the one
\* PostCreated, holds at most one PostPublished and at most one PostArchived,
\* the PostPublished before the PostArchived, and nothing is recorded after
\* the PostArchived; the events pulled and the events pending are that
\* sequence
C37_EventOrder ==
    /\ emitted # <<>>
    /\ emitted[1].type = "PostCreated"
    /\ \A i, j \in 1..Len(emitted) :
          /\ i > 1 => emitted[i].type # "PostCreated"
          /\ (i < j /\ emitted[i].type = "PostPublished") =>
                emitted[j].type # "PostPublished"
          /\ i < j => emitted[i].type # "PostArchived"
    /\ pulled \o domain_events = emitted

\* the post was published, then archived, and a later operation was refused
C37_Witness ==
    /\ Len(emitted) = 3
    /\ emitted[2].type = "PostPublished"
    /\ emitted[3].type = "PostArchived"
    /\ pulled # <<>>
    /\ Raised("PostArchivedError")

\* C39: the publish command handler publishes a post only for its author: a
\* publish command whose requesting_author_id is not the author of the post
\* raises, leaves the status as it was, and nothing is saved or handed to the
\* bus for it
C39_PublishByAuthorOnly ==
    [][\A r \in UUIDs :
          (PublishPost_publish(r) /\ r # author_id) =>
              /\ call'.exc # NoException
              /\ UNCHANGED <<status, domain_events, repo, bus>>]_vars

\* C40: when command handlers run concurrently on one post, the bus receives
\* at most one PostPublished for the post, and no CommentAdded is handed to
\* the bus for a post whose persisted status is archived
C40_ConcurrentHandlers ==
    /\ [](\A i, j \in 1..Len(bus) :
            (bus[i].type = "PostPublished" /\ bus[j].type = "PostPublished"
             /\ bus[i].post_id = bus[j].post_id) => i = j)
    /\ [][\A i \in 1..Len(bus') :
            (i > Len(bus) /\ bus'[i].type = "CommentAdded") =>
                ~(repo # <<>> /\ repo[1].id = bus'[i].post_id
                  /\ repo[1].status = "archived")]_vars

====
